---- MODULE Spec2Model ----
(***************************************************************************)
(* A model of the Gemini commit-message hook (gemini_commit.py) and of its *)
(* installer (install.py).  Each run of the model is one process: either   *)
(* the prepare-commit-msg hook or the installer, started on an arbitrary   *)
(* environment (arguments, commit-message file, API key configuration,     *)
(* git availability, staged diff, filesystem) drawn in Init.               *)
(*                                                                         *)
(* Text is a sequence of characters over Chars; " " stands for any         *)
(* whitespace character.  Python's None is the one-element sequence None.  *)
(* An unhandled Python exception ends the process with exit status 1.      *)
(***************************************************************************)
EXTENDS Integers, Sequences, FiniteSets, TLC

\* ---------------------------------------------------------------- bounds
MaxLen == 2

\* ------------------------------------------------------------- text values
Chars == {"a", " "}

Strings == UNION {[1..n -> Chars] : n \in 0..MaxLen}

None == <<"None">>

\* Python truthiness of a value of type `str | None`.
Truthy(v) == v # None /\ Len(v) > 0

RECURSIVE lstrip(_)
lstrip(s) == IF s # <<>> /\ Head(s) = " " THEN lstrip(Tail(s)) ELSE s

RECURSIVE rstrip(_)
rstrip(s) ==
  IF s # <<>> /\ s[Len(s)] = " " THEN rstrip(SubSeq(s, 1, Len(s) - 1)) ELSE s

\* A plausible slip: only leading whitespace is removed.
strip_lstrip_only(s) == lstrip(s)

\* str.strip(): leading and trailing whitespace removed.
strip(s) == rstrip(lstrip(s))

\* ---------------------------------------------------- outcomes of a call
\* A callee returns a value, calls sys.exit(code), or lets an exception
\* escape (which ends the interpreter with status 1).
Return(v) == [kind |-> "return", value |-> v, code |-> 0]
Exit(c) == [kind |-> "exit", value |-> None, code |-> c]
Raise == [kind |-> "raise", value |-> None, code |-> 1]

\* ---------------------------------------------------------------- config
\* config.GEMINI_API_KEY and os.environ.get("GEMINI_API_KEY"): unset (None),
\* the empty string, or a key.
KeyValues == {None, <<>>, <<"k">>}

get_api_key_unchecked(config_key, env_key) ==
  IF Truthy(config_key) THEN Return(config_key) ELSE Return(env_key)

get_api_key(config_key, env_key) ==
  IF Truthy(config_key) THEN Return(config_key)
  ELSE IF ~Truthy(env_key) THEN Exit(1)
  ELSE Return(env_key)

\* ------------------------------------------------------ repository inspector
\* What the git child process does: it fails (CalledProcessError) or prints.
Diffs == {<<>>, <<"a">>}
DiffResults ==
  {[error |-> TRUE, out |-> <<>>]} \cup {[error |-> FALSE, out |-> d] : d \in Diffs}

BranchOutputs == {<<"a">>, <<"a", " ">>}
BranchResults ==
  {[error |-> TRUE, out |-> <<>>]}
    \cup {[error |-> FALSE, out |-> b] : b \in BranchOutputs}

get_git_diff(git_found, res) ==
  IF ~git_found THEN Exit(1)
  ELSE IF res.error THEN Return(<<>>)
  ELSE Return(res.out)

get_branch_name(git_found, res) ==
  IF ~git_found THEN Exit(1)
  ELSE IF res.error THEN Return(<<>>)
  ELSE Return(strip(res.out))

\* ------------------------------------------------------------ API client
HTTP_OK == 200

Statuses == {200, 201, 429, 500}

NoResponse == [transport |-> "none", status |-> 0, shape |-> "none", text |-> None]

\* What urlopen meets: a transport failure, or a response with a status and,
\* as its body (whatever the status), text that is not JSON, JSON without
\* candidates[0]...text, or JSON whose candidates[0].content.parts[0].text is
\* a string or null.
Responses ==
  {[transport |-> "URLError", status |-> 0, shape |-> "none", text |-> None]}
    \cup {[transport |-> "ok", status |-> s, shape |-> sh, text |-> None] :
            s \in Statuses, sh \in {"invalid_json", "no_candidates"}}
    \cup {[transport |-> "ok", status |-> s, shape |-> "text", text |-> t] :
            s \in Statuses, t \in Strings \cup {None}}

\* The prompt: the template's three holes.
BuildPrompt(diff, branch_name, user_message) ==
  [branch |-> branch_name,
   user_prompt |-> IF Truthy(user_message) THEN <<"hint:">> \o user_message ELSE <<>>,
   diff |-> diff]

\* urlopen's HTTPErrorProcessor raises HTTPError, a URLError, unless 2xx.
UrlopenRaises(resp) ==
  resp.transport = "URLError" \/ ~(200 <= resp.status /\ resp.status < 300)

StatusIsOK_any2xx(status) == 200 <= status /\ status < 300

StatusIsOK(status) == status = HTTP_OK

\* A lenient lookup (dict.get all the way down) would give None instead.
ExtractText_lenient(resp) ==
  IF resp.shape = "text" THEN Return(resp.text) ELSE Return(None)

\* json.loads, then result["candidates"][0]["content"]["parts"][0]["text"]:
\* a body that is not JSON or lacks the path raises (ValueError, KeyError,
\* IndexError), none of them a URLError.
ExtractText(resp) ==
  IF resp.shape = "text" THEN Return(resp.text) ELSE Raise

generate_commit_message(resp) ==
  IF UrlopenRaises(resp) THEN Exit(1)
  ELSE IF StatusIsOK(resp.status) THEN ExtractText(resp)
  ELSE Exit(1)

\* -------------------------------------------------------- hook entry point
Sources == {"merge", "message", "commit"}

Argvs == {<<"main", "MSG">>} \cup {<<"main", "MSG", s>> : s \in Sources}

CommitSource(av) == IF Len(av) > 2 THEN av[3] ELSE ""

IsMerge_never(src) == FALSE

IsMerge(src) == src = "merge"

DiffIsEmpty_never(d) == FALSE

DiffIsEmpty(d) == ~Truthy(d)

ShouldWrite_always(msg) == msg # None

ShouldWrite(msg) == Truthy(msg)

write_text_stripped(data) == strip(data)

\* Path.write_text(data): the file's new content.
write_text(data) == data

\* ------------------------------------------------------------- installer
\* Directory holding install.py and gemini_commit.py, already resolved.
ScriptDirs == {<<"/", "s">>, <<"C", ":", "\\", "s">>}

SCRIPT_NAME == <<"gemini_commit.py">>

\* str.replace("\\", "\\\\"): every backslash doubled.
RECURSIVE EscapeBackslashes(_)
EscapeBackslashes(p) ==
  IF p = <<>> THEN <<>>
  ELSE (IF Head(p) = "\\" THEN <<"\\", "\\">> ELSE <<Head(p)>>)
         \o EscapeBackslashes(Tail(p))

HookContent(script_dir) ==
  <<"#!/bin/sh", "NL", "python", " ">>
    \o EscapeBackslashes(script_dir \o SCRIPT_NAME) \o <<" ", "$1", "NL">>

\* Owner permission bits of the hook file.
Bits == {"r", "w", "x"}
NewFileMode == {"r", "w"}

\* The working directory: .git is absent, a directory, or a file (a linked
\* worktree); .git/hooks likewise; the hook file is absent (None) or holds text.
FileSystems ==
  {[dot_git |-> g, hook_dir |-> "absent", hook_file |-> None, hook_mode |-> {}] :
     g \in {"absent", "file", "dir"}}
    \cup {[dot_git |-> "dir", hook_dir |-> "file", hook_file |-> None, hook_mode |-> {}]}
    \cup {[dot_git |-> "dir", hook_dir |-> "dir", hook_file |-> None, hook_mode |-> {}]}
    \cup {[dot_git |-> "dir", hook_dir |-> "dir", hook_file |-> c, hook_mode |-> m] :
            c \in {<<"old">>} \cup {HookContent(d) : d \in ScriptDirs},
            m \in SUBSET Bits}

NotARepo_exit0 == Exit(0)

\* logger.error(...); sys.exit(1)
NotARepo == Exit(1)

\* HOOK_DIR.mkdir(exist_ok=True), without parents.
MkHookDir(f) ==
  IF f.dot_git # "dir" THEN Raise
  ELSE IF f.hook_dir = "file" THEN Raise
  ELSE Return([f EXCEPT !.hook_dir = "dir"])

\* hook_path.write_text(hook_content): creates or truncates the file.
WriteHookFile(f, content) ==
  IF f.hook_file = None
  THEN Return([f EXCEPT !.hook_file = content, !.hook_mode = NewFileMode])
  ELSE IF "w" \notin f.hook_mode THEN Raise
  ELSE Return([f EXCEPT !.hook_file = content])

\* hook_path.chmod(hook_path.stat().st_mode | stat.S_IEXEC)
ChmodExec(f) == [f EXCEPT !.hook_mode = f.hook_mode \cup {"x"}]


VARIABLES
  prog,            \* which script runs: "hook" or "install"
  argv,            \* sys.argv of the hook
  file0,           \* the commit-message file at process start
  file,            \* the commit-message file now
  written,         \* write_text was executed on the commit-message file
  config_key,      \* config.GEMINI_API_KEY
  env_key,         \* environment variable GEMINI_API_KEY
  git_at_diff,     \* shutil.which("git") succeeds in get_git_diff
  git_at_branch,   \* shutil.which("git") succeeds in get_branch_name
  diff_result,     \* what `git diff --staged` does
  branch_result,   \* what `git rev-parse --abbrev-ref HEAD` does
  pc,              \* position in main
  commit_source, user_message, api_key, diff, branch_name, commit_message,
  request,         \* what was sent to the endpoint, if anything
  api_calls,       \* number of calls of urlopen
  response,        \* what urlopen met
  exit_code,       \* exit status once pc = "Done"
  script_dir,      \* SCRIPT_DIR of the installer
  fs0,             \* the working directory when the installer starts
  fs,              \* the working directory now
  ipc,             \* position in the installer's main
  install_exit     \* the installer's exit status once ipc = "Done"

hook_vars ==
  <<argv, file0, file, written, config_key, env_key, git_at_diff, git_at_branch,
    diff_result, branch_result, pc, commit_source, user_message, api_key, diff,
    branch_name, commit_message, request, api_calls, response, exit_code>>

install_vars == <<script_dir, fs0, fs, ipc, install_exit>>

vars == <<prog, hook_vars, install_vars>>

NoRequest ==
  [sent |-> FALSE, user_message |-> None,
   prompt |-> BuildPrompt(<<>>, <<>>, None), key |-> None]

HookInit ==
  /\ argv \in Argvs
  /\ file0 \in Strings
  /\ file = file0
  /\ written = FALSE
  /\ config_key \in KeyValues
  /\ env_key \in KeyValues
  /\ git_at_diff \in BOOLEAN
  /\ git_at_branch \in BOOLEAN
  /\ diff_result \in DiffResults
  /\ branch_result \in BranchResults
  /\ pc = "Start"
  /\ commit_source = ""
  /\ user_message = None
  /\ api_key = None
  /\ diff = <<>>
  /\ branch_name = <<>>
  /\ commit_message = None
  /\ request = NoRequest
  /\ api_calls = 0
  /\ response = NoResponse
  /\ exit_code = 0

\* The hook's variables while the installer runs: one fixed value.
HookIdle ==
  /\ argv = <<"main", "MSG">> /\ file0 = <<>> /\ file = <<>> /\ written = FALSE
  /\ config_key = None /\ env_key = None
  /\ git_at_diff = TRUE /\ git_at_branch = TRUE
  /\ diff_result = [error |-> TRUE, out |-> <<>>]
  /\ branch_result = [error |-> TRUE, out |-> <<>>]
  /\ pc = "Idle" /\ commit_source = "" /\ user_message = None /\ api_key = None
  /\ diff = <<>> /\ branch_name = <<>> /\ commit_message = None
  /\ request = NoRequest /\ api_calls = 0 /\ response = NoResponse
  /\ exit_code = 0

InstallInit ==
  /\ script_dir \in ScriptDirs
  /\ fs0 \in FileSystems
  /\ fs = fs0
  /\ ipc = "CheckGit"
  /\ install_exit = 0

InstallIdle ==
  /\ script_dir = <<"/", "s">>
  /\ fs0 = [dot_git |-> "absent", hook_dir |-> "absent", hook_file |-> None,
            hook_mode |-> {}]
  /\ fs = fs0
  /\ ipc = "Idle"
  /\ install_exit = 0

Init ==
  \/ prog = "hook" /\ HookInit /\ InstallIdle
  \/ prog = "install" /\ HookIdle /\ InstallInit

\* The environment and the history a hook step leaves alone.
Env == <<prog, argv, file0, config_key, env_key, git_at_diff, git_at_branch,
         diff_result, branch_result, install_vars>>

Terminate(code) == pc' = "Done" /\ exit_code' = code

\* commit_msg_file = sys.argv[1]; commit_source = sys.argv[2] if given.
Start ==
  /\ prog = "hook" /\ pc = "Start"
  /\ commit_source' = CommitSource(argv)
  /\ pc' = "SkipIfMerge"
  /\ UNCHANGED <<Env, file, written, user_message, api_key, diff, branch_name,
                 commit_message, request, api_calls, response, exit_code>>

SkipIfMerge ==
  /\ prog = "hook" /\ pc = "SkipIfMerge"
  /\ IF IsMerge(commit_source) THEN Terminate(0)
     ELSE pc' = "ResolveHint" /\ UNCHANGED exit_code
  /\ UNCHANGED <<Env, file, written, commit_source, user_message, api_key, diff,
                 branch_name, commit_message, request, api_calls, response>>

ResolveHint ==
  /\ prog = "hook" /\ pc = "ResolveHint"
  /\ user_message' = IF commit_source = "message" THEN strip(file) ELSE None
  /\ pc' = "LoadCredentials"
  /\ UNCHANGED <<Env, file, written, commit_source, api_key, diff, branch_name,
                 commit_message, request, api_calls, response, exit_code>>

LoadCredentials ==
  /\ prog = "hook" /\ pc = "LoadCredentials"
  /\ LET r == get_api_key(config_key, env_key) IN
       IF r.kind = "return"
       THEN api_key' = r.value /\ pc' = "FetchDiff" /\ UNCHANGED exit_code
       ELSE Terminate(r.code) /\ UNCHANGED api_key
  /\ UNCHANGED <<Env, file, written, commit_source, user_message, diff,
                 branch_name, commit_message, request, api_calls, response>>

FetchDiff ==
  /\ prog = "hook" /\ pc = "FetchDiff"
  /\ LET r == get_git_diff(git_at_diff, diff_result) IN
       IF r.kind = "return"
       THEN diff' = r.value /\ pc' = "FetchBranch" /\ UNCHANGED exit_code
       ELSE Terminate(r.code) /\ UNCHANGED diff
  /\ UNCHANGED <<Env, file, written, commit_source, user_message, api_key,
                 branch_name, commit_message, request, api_calls, response>>

FetchBranch ==
  /\ prog = "hook" /\ pc = "FetchBranch"
  /\ LET r == get_branch_name(git_at_branch, branch_result) IN
       IF r.kind = "return"
       THEN branch_name' = r.value /\ pc' = "CheckEmptyDiff" /\ UNCHANGED exit_code
       ELSE Terminate(r.code) /\ UNCHANGED branch_name
  /\ UNCHANGED <<Env, file, written, commit_source, user_message, api_key, diff,
                 commit_message, request, api_calls, response>>

CheckEmptyDiff ==
  /\ prog = "hook" /\ pc = "CheckEmptyDiff"
  /\ IF DiffIsEmpty(diff) THEN Terminate(0)
     ELSE pc' = "CallAPI" /\ UNCHANGED exit_code
  /\ UNCHANGED <<Env, file, written, commit_source, user_message, api_key, diff,
                 branch_name, commit_message, request, api_calls, response>>

\* generate_commit_message: one request, whatever comes back.
CallAPI ==
  /\ prog = "hook" /\ pc = "CallAPI"
  /\ \E resp \in Responses :
       LET r == generate_commit_message(resp) IN
         /\ response' = resp
         /\ request' = [sent |-> TRUE,
                        user_message |-> user_message,
                        prompt |-> BuildPrompt(diff, branch_name, user_message),
                        key |-> api_key]
         /\ api_calls' = api_calls + 1
         /\ IF r.kind = "return"
            THEN commit_message' = r.value /\ pc' = "WriteResult"
                 /\ UNCHANGED exit_code
            ELSE Terminate(r.code) /\ UNCHANGED commit_message
  /\ UNCHANGED <<Env, file, written, commit_source, user_message, api_key, diff,
                 branch_name>>

WriteResult ==
  /\ prog = "hook" /\ pc = "WriteResult"
  /\ IF ShouldWrite(commit_message)
     THEN file' = write_text(commit_message) /\ written' = TRUE
     ELSE UNCHANGED <<file, written>>
  /\ Terminate(0)
  /\ UNCHANGED <<Env, commit_source, user_message, api_key, diff, branch_name,
                 commit_message, request, api_calls, response>>

InstallTerminate(code) == ipc' = "Done" /\ install_exit' = code

\* if not Path(".git").exists(): ... sys.exit(1)
InstallCheckGit ==
  /\ prog = "install" /\ ipc = "CheckGit"
  /\ IF fs.dot_git = "absent" THEN InstallTerminate(NotARepo.code)
     ELSE ipc' = "MkHookDir" /\ UNCHANGED install_exit
  /\ UNCHANGED <<prog, hook_vars, script_dir, fs0, fs>>

InstallMkHookDir ==
  /\ prog = "install" /\ ipc = "MkHookDir"
  /\ LET r == MkHookDir(fs) IN
       IF r.kind = "return"
       THEN fs' = r.value /\ ipc' = "WriteHook" /\ UNCHANGED install_exit
       ELSE InstallTerminate(r.code) /\ UNCHANGED fs
  /\ UNCHANGED <<prog, hook_vars, script_dir, fs0>>

InstallWriteHook ==
  /\ prog = "install" /\ ipc = "WriteHook"
  /\ LET r == WriteHookFile(fs, HookContent(script_dir)) IN
       IF r.kind = "return"
       THEN fs' = r.value /\ ipc' = "Chmod" /\ UNCHANGED install_exit
       ELSE InstallTerminate(r.code) /\ UNCHANGED fs
  /\ UNCHANGED <<prog, hook_vars, script_dir, fs0>>

\* chmod, then the success log; main returns.
InstallChmod ==
  /\ prog = "install" /\ ipc = "Chmod"
  /\ fs' = ChmodExec(fs)
  /\ InstallTerminate(0)
  /\ UNCHANGED <<prog, hook_vars, script_dir, fs0>>

Next ==
  \/ InstallCheckGit
  \/ InstallMkHookDir
  \/ InstallWriteHook
  \/ InstallChmod
  \/ Start
  \/ SkipIfMerge
  \/ ResolveHint
  \/ LoadCredentials
  \/ FetchDiff
  \/ FetchBranch
  \/ CheckEmptyDiff
  \/ CallAPI
  \/ WriteResult

Spec == Init /\ [][Next]_vars

\* ====================================================================
\* Properties
\* ====================================================================
HookDone == prog = "hook" /\ pc = "Done"

SourceArg == CommitSource(argv)

\* The API key is missing: neither the configuration nor the environment sets it.
KeyMissing == config_key = None /\ env_key = None

KeyAvailable == Truthy(config_key) \/ Truthy(env_key)

\* The staged diff is empty: `git diff --staged` fails or prints nothing.
EmptyDiffInput == diff_result.error \/ diff_result.out = <<>>

\* The API client returned a non-empty message.
ApiReturnedNonEmpty ==
  /\ request.sent
  /\ response.transport = "ok" /\ response.status = 200
  /\ response.shape = "text" /\ response.text # None /\ Len(response.text) > 0

\* t is s without its leading and trailing whitespace, stated without strip.
IsTrimOf(t, s) ==
  \E i \in 1..(Len(s) + 1) : \E j \in (i - 1)..Len(s) :
    /\ t = SubSeq(s, i, j)
    /\ \A k \in 1..(i - 1) : s[k] = " "
    /\ \A k \in (j + 1)..Len(s) : s[k] = " "
    /\ t # <<>> => t[1] # " " /\ t[Len(t)] # " "

\* C1: the commit-message file is overwritten only if the API client returned
\* a non-empty message, and on every path that ends in a failure or an early
\* exit the file holds at process end what it held at process start.
C1_WriteOnlyOnMessage ==
  prog = "hook" =>
    /\ written => ApiReturnedNonEmpty
    /\ file # file0 => written
    /\ (pc = "Done" /\ (exit_code # 0 \/ ~ApiReturnedNonEmpty)) =>
         ~written /\ file = file0

\* C1 witness: a run that called the API, failed, and left a non-empty file as it was.
C1_Witness ==
  /\ HookDone /\ exit_code = 1 /\ request.sent
  /\ file0 # <<>> /\ file = file0 /\ ~written

\* C2 as stated: with an empty staged diff the process exits 0 and leaves the
\* file unmodified, whatever the commit-source, the key and the branch lookup.
C2_Original ==
  (HookDone /\ EmptyDiffInput) => exit_code = 0 /\ file = file0

\* C2 amended: with an empty staged diff the file is left unmodified and the
\* API client is not invoked; the exit status is 0 when the commit-source is
\* "merge" or when the API key is available and git is found, and 1 when the
\* key is missing and the commit-source is not "merge".
C2_EmptyDiff ==
  (HookDone /\ EmptyDiffInput) =>
    /\ file = file0 /\ ~written /\ ~request.sent
    /\ (SourceArg = "merge" \/ (KeyAvailable /\ git_at_diff /\ git_at_branch))
         => exit_code = 0
    /\ (SourceArg # "merge" /\ ~KeyAvailable) => exit_code = 1

\* C2 witness: a non-merge run with a key that stopped at the empty-diff check.
C2_Witness ==
  /\ HookDone /\ EmptyDiffInput /\ SourceArg = "message" /\ KeyAvailable
  /\ exit_code = 0 /\ ~request.sent /\ file = file0 /\ file0 # <<>>

\* C3: when the commit-source is "merge" the process exits 0 and the API
\* client is never invoked, whatever the key, git and the diff.
C3_MergeSkips ==
  (prog = "hook" /\ SourceArg = "merge") =>
    /\ api_calls = 0 /\ ~request.sent
    /\ pc = "Done" => exit_code = 0

\* C3 witness: a merge run ended, with no key and no git at hand.
C3_Witness ==
  /\ HookDone /\ SourceArg = "merge" /\ exit_code = 0
  /\ KeyMissing /\ ~git_at_diff /\ ~EmptyDiffInput

\* C4 as stated: with the API key missing the process exits non-zero and
\* attempts no network call.
C4_Original ==
  (HookDone /\ KeyMissing) => exit_code # 0 /\ api_calls = 0

\* C4 amended: with the API key missing no network call is attempted at any
\* point of the run; the process exits non-zero unless the commit-source is
\* "merge", in which case it has exited 0 before the key is looked up.
C4_MissingKey ==
  (prog = "hook" /\ KeyMissing) =>
    /\ api_calls = 0 /\ ~request.sent
    /\ (pc = "Done" /\ SourceArg # "merge") => exit_code # 0
    /\ (pc = "Done" /\ SourceArg = "merge") => exit_code = 0

\* C4 witness: a non-merge run without a key ended with status 1.
C4_Witness ==
  /\ HookDone /\ KeyMissing /\ SourceArg # "merge"
  /\ exit_code = 1 /\ api_calls = 0 /\ ~EmptyDiffInput /\ git_at_diff

\* C5: when the API client receives an HTTP status other than 200 the process
\* exits non-zero, makes no second request and leaves the file unmodified.
C5_Non200Fatal ==
  (response.transport = "ok" /\ response.status # 200) =>
    /\ pc = "Done" /\ exit_code # 0
    /\ api_calls = 1
    /\ ~written /\ file = file0

\* C5 witness: a 429 whose body carries a usable text, met by a run on a non-empty file.
C5_Witness ==
  /\ HookDone /\ response.transport = "ok" /\ response.status = 429
  /\ response.shape = "text" /\ Truthy(response.text)
  /\ exit_code = 1 /\ file0 # <<>> /\ file = file0

\* C6: when the commit-source is "message", the hint passed to the prompt
\* builder is the trimmed content the file had at process start: it is read
\* before any overwrite, and the value read is the one used in the prompt.
C6_HintIsTrimmedFile ==
  (prog = "hook" /\ SourceArg = "message") =>
    /\ pc \in {"LoadCredentials", "FetchDiff", "FetchBranch", "CheckEmptyDiff",
               "CallAPI", "WriteResult"} => IsTrimOf(user_message, file0)
    /\ pc \in {"Start", "SkipIfMerge", "ResolveHint"} => file = file0 /\ ~written
    /\ request.sent =>
         /\ IsTrimOf(request.user_message, file0)
         /\ request.prompt.user_prompt =
              (IF request.user_message = <<>> THEN <<>>
               ELSE <<"hint:">> \o request.user_message)

\* C6 witness: the file had whitespace around its text, was read, and was
\* overwritten afterwards with something else.
C6_Witness ==
  /\ HookDone /\ SourceArg = "message" /\ written /\ file # file0
  /\ request.sent /\ request.user_message = <<"a">> /\ file0 = <<"a", " ">>

\* C7 as stated: whatever string the API client returns, the file's final
\* content is exactly that string.
C7_Original ==
  (HookDone /\ request.sent /\ exit_code = 0 /\ response.text # None) =>
    file = response.text

\* C7 amended: whatever non-empty string the API client returns, the file's
\* final content is exactly that string, nothing trimmed or added; when it
\* returns the empty string the file keeps its content.
C7_RoundTrip ==
  (HookDone /\ request.sent /\ exit_code = 0 /\ response.text # None) =>
    /\ Len(response.text) > 0 => written /\ file = response.text
    /\ Len(response.text) = 0 => ~written /\ file = file0

\* C7 witness: a message with whitespace at both ends was written as it came.
C7_Witness ==
  /\ HookDone /\ written /\ response.text = <<" ", " ">> /\ file = <<" ", " ">>
  /\ file0 = <<"a">>

\* C8: when the installer runs where there is no .git, the process exits
\* non-zero and the filesystem is unchanged: no hook directory, no hook file.
C8_InstallOutsideRepo ==
  (prog = "install" /\ fs0.dot_git = "absent") =>
    /\ fs = fs0 /\ fs.hook_dir = "absent" /\ fs.hook_file = None
    /\ ipc \in {"CheckGit", "Done"}
    /\ ipc = "Done" => install_exit # 0

\* C8 witness: the installer ended where there is no .git.
C8_Witness ==
  /\ prog = "install" /\ ipc = "Done" /\ fs0.dot_git = "absent"
  /\ install_exit = 1 /\ fs = fs0

\* The run reached the branch lookup and the lookup failed.
BranchLookupFailed ==
  /\ prog = "hook" /\ SourceArg # "merge" /\ KeyAvailable /\ git_at_diff
  /\ ~git_at_branch \/ branch_result.error

\* C9: branch lookup is never fatal: however it fails (git exits non-zero, or
\* the git executable is not found at the lookup), the branch name is the
\* empty string and the process goes on to the empty-diff check.
C9_BranchNeverFatal ==
  BranchLookupFailed =>
    /\ pc \in {"CheckEmptyDiff", "CallAPI", "WriteResult", "Done"} => branch_name = <<>>
    /\ pc = "Done" => (exit_code = 0 \/ request.sent)

\* No usable text came with a 200: the body is not JSON, lacks the text, or
\* its text is null or empty.
NoUsableText ==
  /\ request.sent /\ response.transport = "ok" /\ response.status = 200
  /\ response.shape = "text" => ~Truthy(response.text)

\* C10 as stated: a 200 without usable text ends the process normally, with
\* status 0 and the file not written.
C10_Original ==
  (HookDone /\ NoUsableText) => ~written /\ file = file0 /\ exit_code = 0

\* C10 amended: a 200 without usable text never writes the file; the process
\* exits 0 when the extracted text is empty or null, and ends on an unhandled
\* exception, with status 1, when the body is not JSON or lacks the text.
C10_NoUsableText ==
  (HookDone /\ NoUsableText) =>
    /\ ~written /\ file = file0
    /\ exit_code = 0 <=> response.shape = "text"
    /\ exit_code = 1 <=> response.shape # "text"

\* C10 witness: a 200 carrying the empty string ended the run with status 0.
C10_Witness ==
  /\ HookDone /\ NoUsableText /\ response.shape = "text" /\ response.text = <<>>
  /\ exit_code = 0 /\ ~written /\ file0 # <<>> /\ file = file0

====
